---- MODULE Spec2Model ----
(***************************************************************************)
(* HabitFlow persistence engine (src/database.py): the SQLite store of     *)
(* habits, habit completions, tasks and settings, and the repository       *)
(* operations the HTTP routes of src/main.py call.                         *)
(*                                                                         *)
(* Tables are modelled as the rows they hold.  habit_completions is a bag  *)
(* of (habit_id, date) rows: its AUTOINCREMENT row id is never read by the *)
(* program (the SELECT of toggle_habit_completion only tests for a row),   *)
(* so two rows with the same (habit_id, date) are two copies in the bag.   *)
(* Text columns holding dates are sequences of one-character strings.      *)
(***************************************************************************)
EXTENDS Naturals, Integers, Sequences, FiniteSets, Bags, TLC

VARIABLES
    habits,       \* rows of table habits: [id, name, sort_order]
    habitSeq,     \* sqlite_sequence entry of habits (largest id ever given)
    completions,  \* rows of table habit_completions, a bag of [habit_id, date]
    tasks,        \* rows of table tasks
    taskSeq,      \* sqlite_sequence entry of tasks
    settings,     \* rows of table settings: [key, value]
    now,          \* the store's clock (CURRENT_TIMESTAMP, one-second resolution)
    today,        \* date.today(), as a proleptic Gregorian ordinal
    txn,          \* the connection of a write in progress and its open transaction
    givenIds,     \* the ids create_habit has returned so far
    conns,        \* the number of connections to the store that are open
    last          \* the last call made to the engine: operation, arguments, result

vars == <<habits, habitSeq, completions, tasks, taskSeq, settings, now, today,
          txn, givenIds, conns, last>>

----------------------------------------------------------------------------
(* Bounds of the model *)

\* The most connections left open at a time.
MaxConns == 2

MaxHabitId == 2
MaxTaskId == 2
MaxClock == 1

----------------------------------------------------------------------------
(* Inputs *)

\* Decimal text of a natural number, as str.format and date.isoformat
\* write it.
Digit(n) == <<"0", "1", "2", "3", "4", "5", "6", "7", "8", "9">>[n + 1]

RECURSIVE Decimal(_)
Decimal(n) == IF n < 10 THEN <<Digit(n)>> ELSE Decimal(n \div 10) \o <<Digit(n % 10)>>

RECURSIVE ZeroPad(_, _)
ZeroPad(s, w) == IF Len(s) >= w THEN s ELSE ZeroPad(<<"0">> \o s, w)

\* f"{n:02d}" and f"{n:04d}"
Pad2(n) == ZeroPad(Decimal(n), 2)

Pad4(n) == ZeroPad(Decimal(n), 4)

\* date.isoformat(): YYYY-MM-DD
isoformat(y, m, d) == Pad4(y) \o <<"-">> \o Pad2(m) \o <<"-">> \o Pad2(d)

\* datetime's calendar (Lib/datetime.py): leap years, month lengths and the
\* proleptic Gregorian ordinal, where 0001-01-01 is day 1.
is_leap(y) == y % 4 = 0 /\ (y % 100 # 0 \/ y % 400 = 0)

days_in_month(y, m) ==
    IF m = 2 THEN (IF is_leap(y) THEN 29 ELSE 28)
    ELSE IF m \in {4, 6, 9, 11} THEN 30 ELSE 31

days_before_year(y) ==
    (y - 1) * 365 + (y - 1) \div 4 - (y - 1) \div 100 + (y - 1) \div 400

RECURSIVE days_before_month(_, _)
days_before_month(y, m) ==
    IF m = 1 THEN 0 ELSE days_before_month(y, m - 1) + days_in_month(y, m - 1)

\* date(y, m, d).toordinal()
toordinal(y, m, d) == days_before_year(y) + days_before_month(y, m) + d

\* The month and day of the n-th day (from 0) of year y.
RECURSIVE MonthAndDay(_, _, _)
MonthAndDay(y, m, n) ==
    IF n < days_in_month(y, m) THEN [y |-> y, m |-> m, d |-> n + 1]
    ELSE MonthAndDay(y, m + 1, n - days_in_month(y, m))

\* date.fromordinal(n) as [y, m, d]: _ord2ymd's 400-, 100-, 4- and 1-year
\* cycles.
fromordinal(n) ==
    LET n0 == n - 1
        n400 == n0 \div 146097
        r400 == n0 % 146097
        n100 == r400 \div 36524
        r100 == r400 % 36524
        n4 == r100 \div 1461
        r4 == r100 % 1461
        n1 == r4 \div 365
        r1 == r4 % 365
        year == n400 * 400 + n100 * 100 + n4 * 4 + n1 + 1
    IN  IF n1 = 4 \/ n100 = 4 THEN [y |-> year - 1, m |-> 12, d |-> 31]
        ELSE MonthAndDay(year, 1, r1)

\* date.fromordinal(n).isoformat(), also strftime("%Y-%m-%d") for the
\* four-digit years of the model.
DateStr(n) == LET t == fromordinal(n) IN isoformat(t.y, t.m, t.d)

\* date.weekday(): Monday is 0.
weekday(n) == (n + 6) % 7

\* The habit ids a caller may pass (the route takes any int): ids of live
\* habits, of deleted habits and of habits never created.
HabitIds == 1..MaxHabitId

\* The dates a caller passes: the last day of a month and the first of the
\* next.
DateStrs == {isoformat(2024, 5, 31), isoformat(2024, 6, 1)}

HabitNames == {"Read"}

\* Lists of distinct habit ids, full or partial, as reorder_habits receives.
RECURSIVE IdLists(_)
IdLists(S) ==
    {<<>>} \cup UNION {{<<x>> \o l : l \in IdLists(S \ {x})} : x \in S}

----------------------------------------------------------------------------
(* The store *)

\* get_connection opens the database without PRAGMA foreign_keys = ON, and
\* SQLite does not enforce foreign keys unless a connection turns them on:
\* the FOREIGN KEY ... ON DELETE CASCADE clause of habit_completions is inert.
ForeignKeysEnforced == FALSE

NoCall ==
    [op |-> "none", hid |-> 0, date |-> <<>>, ids |-> <<>>, ret |-> FALSE,
     rows |-> <<>>, before |-> {}, again |-> FALSE, out |-> <<>>,
     raised |-> "none", sets |-> <<>>, on |-> 0]

\* A call that returned: raised holds the exception's name when a call
\* raises, out the value a read returns, ids the arguments of a call that
\* takes no habit id, sets the value of the latest set_setting call of
\* each key, and on the day a call that reads date.today() was made.
Call(op, hid, date, ids, ret, rows) ==
    [op |-> op, hid |-> hid, date |-> date, ids |-> ids, ret |-> ret,
     rows |-> rows, before |-> {}, again |-> FALSE, out |-> <<>>,
     raised |-> "none", sets |-> <<>>, on |-> 0]

\* No write in progress.
NoTxn ==
    [state |-> "none", op |-> "none", hid |-> 0, ids |-> <<>>, pc |-> 0,
     habits |-> {}, completions |-> EmptyBag, start |-> <<>>]

HabitIdsOf(H) == {h.id : h \in H}

\* The (habit_id, date) pairs that have at least one row.
PairsOf(C) == BagToSet(C)

Pair(hid, d) == [habit_id |-> hid, date |-> d]

\* SELECT id FROM habit_completions WHERE habit_id = ? AND date = ?
SelectCompletion(C, hid, d) == BagIn(Pair(hid, d), C)

\* Faulty variant of DeleteCompletion: the WHERE clause forgets the date.
DeleteCompletion_AnyDate(C, hid, d) ==
    [p \in {q \in BagToSet(C) : q.habit_id # hid} |-> C[p]]

\* DELETE FROM habit_completions WHERE habit_id = ? AND date = ?
DeleteCompletion(C, hid, d) ==
    [p \in BagToSet(C) \ {Pair(hid, d)} |-> C[p]]

\* DELETE FROM habit_completions WHERE habit_id = ?
DeleteCompletionsOf(C, hid) ==
    [p \in {q \in BagToSet(C) : q.habit_id # hid} |-> C[p]]

\* INSERT INTO habit_completions (habit_id, date) under the table's
\* constraints: UNIQUE(habit_id, date), and the foreign key when enforced.
\* A rejected insert raises and leaves the table as it was.
InsertCompletion(C, H, hid, d) ==
    IF SelectCompletion(C, hid, d) THEN C
    ELSE IF ForeignKeysEnforced /\ hid \notin HabitIdsOf(H) THEN C
    ELSE C (+) SetToBag({Pair(hid, d)})

----------------------------------------------------------------------------
(* Habit repository *)

\* Faulty variant of HabitBefore: ORDER BY id, the order of the schema
\* before sort_order was added.
HabitBefore_ById(g, h) == g.id <= h.id

\* ORDER BY sort_order, id
HabitBefore(g, h) ==
    \/ g.sort_order < h.sort_order
    \/ g.sort_order = h.sort_order /\ g.id <= h.id

RECURSIVE SortHabits(_)
SortHabits(H) ==
    IF H = {} THEN <<>>
    ELSE LET first == CHOOSE g \in H : \A h \in H : HabitBefore(g, h)
         IN  <<first>> \o SortHabits(H \ {first})

\* get_all_habits: SELECT * FROM habits ORDER BY sort_order, id
get_all_habits(H) == SortHabits(H)

IdsOfRows(rows) == [i \in 1..Len(rows) |-> rows[i].id]

\* Faulty variant of create_habit: the id column without AUTOINCREMENT, a
\* new row taking the largest id in the table plus one.
create_habit_MaxRowid(name) ==
    LET largest == IF habits = {} THEN 0
                   ELSE CHOOSE i \in HabitIdsOf(habits) :
                            \A j \in HabitIdsOf(habits) : j <= i
    IN  /\ largest < MaxHabitId
        /\ habitSeq' = habitSeq
        /\ habits' = habits \cup {[id |-> largest + 1, name |-> name, sort_order |-> 0]}
        /\ givenIds' = givenIds \cup {largest + 1}
        /\ last' = Call("create_habit", largest + 1, <<>>, <<>>, TRUE, <<>>)
        /\ UNCHANGED <<completions, tasks, taskSeq, settings, now, today, txn, conns>>

\* create_habit: the INSERT names no sort_order, so the row takes the
\* column's DEFAULT 0; AUTOINCREMENT gives an id above every id ever given.
create_habit(name) ==
    /\ habitSeq < MaxHabitId
    /\ habitSeq' = habitSeq + 1
    /\ habits' = habits \cup {[id |-> habitSeq + 1, name |-> name, sort_order |-> 0]}
    /\ givenIds' = givenIds \cup {habitSeq + 1}
    /\ last' = Call("create_habit", habitSeq + 1, <<>>, <<>>, TRUE, <<>>)
    /\ UNCHANGED <<completions, tasks, taskSeq, settings, now, today, txn, conns>>

\* Faulty variant of delete_habit: only the habits row is deleted, the
\* completions being left to the (inert) ON DELETE CASCADE.
delete_habit_RowOnly(hid) ==
    /\ habits' = {h \in habits : h.id # hid}
    /\ last' = [Call("delete_habit", hid, <<>>, <<>>, hid \in HabitIdsOf(habits), <<>>)
                   EXCEPT !.before = PairsOf(completions)]
    /\ UNCHANGED <<completions, habitSeq, tasks, taskSeq, settings, now, today, txn,
                   givenIds, conns>>

\* delete_habit: both DELETEs run whatever they match; the result is the
\* row count of the second one.  `before' records the (habit_id, date)
\* pairs held when the call was made.
delete_habit(hid) ==
    /\ completions' = DeleteCompletionsOf(completions, hid)
    /\ habits' = {h \in habits : h.id # hid}
    /\ last' = [Call("delete_habit", hid, <<>>, <<>>, hid \in HabitIdsOf(habits), <<>>)
                   EXCEPT !.before = PairsOf(completions)]
    /\ UNCHANGED <<habitSeq, tasks, taskSeq, settings, now, today, txn,
                   givenIds, conns>>

\* Faulty variant of ApplyOrder: enumerate(habit_ids, 1), 1-based positions.
RECURSIVE ApplyOrder_OneBased(_, _, _)
ApplyOrder_OneBased(H, ids, index) ==
    IF index >= Len(ids) THEN H
    ELSE ApplyOrder_OneBased({IF h.id = ids[index + 1]
                                 THEN [h EXCEPT !.sort_order = index + 1]
                                 ELSE h : h \in H},
                             ids, index + 1)

\* update_habits_order: one UPDATE per list entry, in list order, each
\* setting sort_order to the entry's 0-based index; an id with no row
\* matches nothing.
RECURSIVE ApplyOrder(_, _, _)
ApplyOrder(H, ids, index) ==
    IF index >= Len(ids) THEN H
    ELSE ApplyOrder({IF h.id = ids[index + 1]
                        THEN [h EXCEPT !.sort_order = index]
                        ELSE h : h \in H},
                    ids, index + 1)

update_habits_order(ids) ==
    /\ habits' = ApplyOrder(habits, ids, 0)
    /\ last' = Call("update_habits_order", 0, <<>>, ids, TRUE, <<>>)
    /\ UNCHANGED <<habitSeq, completions, tasks, taskSeq, settings, now, today, txn,
                   givenIds, conns>>

\* Faulty variant of toggle_habit_completion: no SELECT and no UNIQUE
\* constraint, every call inserts a row.
toggle_habit_completion_NoCheck(hid, d) ==
    /\ completions' = completions (+) SetToBag({Pair(hid, d)})
    /\ last' = [Call("toggle_habit_completion", hid, d, <<>>, TRUE, <<>>)
                   EXCEPT !.before = PairsOf(completions),
                          !.again = /\ last.op = "toggle_habit_completion"
                                    /\ last.hid = hid
                                    /\ last.date = d]
    /\ UNCHANGED <<habits, habitSeq, tasks, taskSeq, settings, now, today, txn,
                   givenIds, conns>>

\* Faulty variant of toggle_habit_completion: the result is the state found,
\* not the new state.
toggle_habit_completion_OldState(hid, d) ==
    LET existing == SelectCompletion(completions, hid, d)
    IN  /\ completions' = IF existing
                             THEN DeleteCompletion(completions, hid, d)
                             ELSE InsertCompletion(completions, habits, hid, d)
        /\ last' = [Call("toggle_habit_completion", hid, d, <<>>, existing, <<>>)
                       EXCEPT !.before = PairsOf(completions),
                              !.again = /\ last.op = "toggle_habit_completion"
                                        /\ last.hid = hid
                                        /\ last.date = d]
        /\ UNCHANGED <<habits, habitSeq, tasks, taskSeq, settings, now, today, txn,
                   givenIds, conns>>

\* toggle_habit_completion: delete the row when the SELECT finds one,
\* insert one otherwise; the result is the new state.  `before' records the
\* (habit_id, date) pairs held when the call was made, `again' that the
\* previous call was this same toggle.
toggle_habit_completion(hid, d) ==
    LET existing == SelectCompletion(completions, hid, d)
    IN  /\ completions' = IF existing
                             THEN DeleteCompletion(completions, hid, d)
                             ELSE InsertCompletion(completions, habits, hid, d)
        /\ last' = [Call("toggle_habit_completion", hid, d, <<>>, ~existing, <<>>)
                       EXCEPT !.before = PairsOf(completions),
                              !.again = /\ last.op = "toggle_habit_completion"
                                        /\ last.hid = hid
                                        /\ last.date = d]
        /\ UNCHANGED <<habits, habitSeq, tasks, taskSeq, settings, now, today, txn,
                   givenIds, conns>>

\* str.startswith, which is what LIKE 'prefix%' tests for a prefix of
\* digits and dashes.
StartsWith(s, prefix) ==
    Len(s) >= Len(prefix) /\ SubSeq(s, 1, Len(prefix)) = prefix

\* Faulty variant of MonthRows: the LIKE pattern holds the year only.
MonthRows_YearOnly(C, year, month) ==
    {p \in BagToSet(C) : StartsWith(p.date, Pad4(year) \o <<"-">>)}

\* The rows get_habit_completions selects:
\*   SELECT habit_id, date FROM habit_completions WHERE date LIKE 'YYYY-MM%'
MonthRows(C, year, month) ==
    {p \in BagToSet(C) : StartsWith(p.date, Pad4(year) \o <<"-">> \o Pad2(month))}

\* The keys of the dictionary get_habit_completions returns: the habit ids
\* of the selected rows.
MonthCompletionKeys(C, year, month) == {p.habit_id : p \in MonthRows(C, year, month)}

\* get_all_habits as a call: the store is read, the rows are returned.
list_habits ==
    /\ last' = Call("get_all_habits", 0, <<>>, <<>>, TRUE, get_all_habits(habits))
    /\ UNCHANGED <<habits, habitSeq, completions, tasks, taskSeq, settings, now, today, txn,
                   givenIds, conns>>

----------------------------------------------------------------------------
(* Schema / store initialisation *)

\* The backfill of init_database:
\*   UPDATE habits SET sort_order = id WHERE sort_order = 0 OR sort_order IS NULL
\* (sort_order is never NULL here: the column is added with DEFAULT 0).
BackfillSortOrder(H) ==
    {IF h.sort_order = 0 THEN [h EXCEPT !.sort_order = h.id] ELSE h : h \in H}

\* init_database on an existing store (each start of the program: on import
\* of the module and again in main): the CREATE TABLE IF NOT EXISTS and the
\* failing ALTER TABLE statements change nothing, the backfill runs.
init_database ==
    /\ habits' = BackfillSortOrder(habits)
    /\ last' = Call("init_database", 0, <<>>, <<>>, TRUE, <<>>)
    /\ UNCHANGED <<habitSeq, completions, tasks, taskSeq, settings, now, today, txn,
                   givenIds, conns>>

----------------------------------------------------------------------------
(* Specification of the habit repository *)

\* The store after init_database has created it: every table empty.
Init ==
    /\ habits = {}
    /\ habitSeq = 0
    /\ completions = EmptyBag
    /\ tasks = {}
    /\ taskSeq = 0
    /\ settings = {}
    /\ now = 0
    /\ today = toordinal(2024, 6, 1)
    /\ txn = NoTxn
    /\ givenIds = 1..habitSeq
    /\ conns = 0
    /\ last = NoCall

Next ==
    \/ \E name \in HabitNames : create_habit(name)
    \/ \E hid \in HabitIds : delete_habit(hid)
    \/ \E ids \in IdLists(HabitIds) : update_habits_order(ids)
    \/ \E hid \in HabitIds, d \in DateStrs : toggle_habit_completion(hid, d)
    \/ list_habits
    \/ init_database

Spec == Init /\ [][Next]_vars

----------------------------------------------------------------------------
(* Task repository *)

TaskIds == 1..MaxTaskId

TaskTitles == {"Write"}

\* The priorities a caller passes; the column is TEXT and takes any string.
Priorities == {"high", "medium", "low"}

\* The bytes of a priority's text, which SQLite's default (BINARY) collation
\* compares.
TextBytes(p) ==
    CASE p = "high"   -> <<104, 105, 103, 104>>
      [] p = "medium" -> <<109, 101, 100, 105, 117, 109>>
      [] p = "low"    -> <<108, 111, 119>>

\* memcmp order of two texts: the first differing byte decides, a proper
\* prefix is smaller.
RECURSIVE BytesLess(_, _)
BytesLess(a, b) ==
    IF b = <<>> THEN FALSE
    ELSE IF a = <<>> THEN TRUE
    ELSE IF Head(a) # Head(b) THEN Head(a) < Head(b)
    ELSE BytesLess(Tail(a), Tail(b))

TextLess(p, q) == BytesLess(TextBytes(p), TextBytes(q))

\* ORDER BY priority DESC, created_at: t may come before u.
TaskBefore(t, u) ==
    \/ TextLess(u.priority, t.priority)
    \/ t.priority = u.priority /\ t.created_at <= u.created_at

\* The arrangements of a set of rows as a list.
RECURSIVE Arrangements(_)
Arrangements(S) ==
    IF S = {} THEN {<<>>}
    ELSE UNION {{<<x>> \o l : l \in Arrangements(S \ {x})} : x \in S}

\* get_tasks_for_date:
\*   SELECT * FROM tasks WHERE date = ? ORDER BY priority DESC, created_at
\* SQL leaves the order of rows with equal keys open: every arrangement in
\* key order is a possible result.
TasksForDateResults(T, d) ==
    {r \in Arrangements({t \in T : t.date = d}) :
        \A i, j \in 1..Len(r) : i < j => TaskBefore(r[i], r[j])}

\* create_task: completed takes DEFAULT 0 and created_at CURRENT_TIMESTAMP.
create_task(title, d, priority) ==
    /\ taskSeq < MaxTaskId
    /\ taskSeq' = taskSeq + 1
    /\ tasks' = tasks \cup {[id |-> taskSeq + 1, title |-> title, date |-> d,
                             completed |-> 0, priority |-> priority,
                             created_at |-> now]}
    /\ last' = Call("create_task", taskSeq + 1, d, <<>>, FALSE, <<>>)
    /\ UNCHANGED <<habits, habitSeq, completions, settings, now, today, txn,
                   givenIds, conns>>

\* Faulty variant of toggle_task: the UPDATE has no WHERE clause.
toggle_task_AllRows(tid) ==
    /\ tasks' = {[t EXCEPT !.completed = IF t.completed = 1 THEN 0 ELSE 1] :
                    t \in tasks}
    /\ last' = [Call("toggle_task", tid, <<>>, <<>>,
                     \E t \in tasks' : t.id = tid /\ t.completed # 0, <<>>)
                   EXCEPT !.before = tasks,
                          !.again = (last.op = "toggle_task" /\ last.hid = tid)]
    /\ UNCHANGED <<habits, habitSeq, completions, taskSeq, settings, now, today, txn,
                   givenIds, conns>>

\* toggle_task: UPDATE ... SET completed = CASE WHEN completed = 1 THEN 0
\* ELSE 1 END, then the row's flag is read back; False when there is no row.
toggle_task(tid) ==
    /\ tasks' = {IF t.id = tid
                    THEN [t EXCEPT !.completed = IF t.completed = 1 THEN 0 ELSE 1]
                    ELSE t : t \in tasks}
    /\ last' = [Call("toggle_task", tid, <<>>, <<>>,
                     \E t \in tasks' : t.id = tid /\ t.completed # 0, <<>>)
                   EXCEPT !.before = tasks,
                          !.again = (last.op = "toggle_task" /\ last.hid = tid)]
    /\ UNCHANGED <<habits, habitSeq, completions, taskSeq, settings, now, today, txn,
                   givenIds, conns>>

\* delete_task: the result is the DELETE's row count.
delete_task(tid) ==
    /\ tasks' = {t \in tasks : t.id # tid}
    /\ last' = Call("delete_task", tid, <<>>, <<>>, \E t \in tasks : t.id = tid, <<>>)
    /\ UNCHANGED <<habits, habitSeq, completions, taskSeq, settings, now, today, txn,
                   givenIds, conns>>

\* The list get_tasks_for_date returns: one of the possible results.  The
\* engine runs the same statement over the same table the same way, so which
\* one is fixed by the table.
get_tasks_for_date(T, d) == CHOOSE r \in TasksForDateResults(T, d) : TRUE

\* get_tasks_for_date as a call.
tasks_for_date(d) ==
    /\ last' = Call("get_tasks_for_date", 0, d, <<>>, TRUE, get_tasks_for_date(tasks, d))
    /\ UNCHANGED <<habits, habitSeq, completions, tasks, taskSeq, settings, now, today, txn,
                   givenIds, conns>>

\* A second passes on the store's clock.
Tick ==
    /\ now < MaxClock
    /\ now' = now + 1
    /\ UNCHANGED <<habits, habitSeq, completions, tasks, taskSeq, settings, today, txn, last,
                   givenIds, conns>>

NextTasks ==
    \/ \E title \in TaskTitles, d \in DateStrs, priority \in Priorities :
          create_task(title, d, priority)
    \/ \E tid \in TaskIds : toggle_task(tid)
    \/ \E tid \in TaskIds : delete_task(tid)
    \/ \E d \in DateStrs : tasks_for_date(d)
    \/ Tick

SpecTasks == Init /\ [][NextTasks]_vars

----------------------------------------------------------------------------
(* Properties of the habit repository *)

\* The months asked of get_habit_completions: the months of DateStrs and
\* their neighbours.
Months == {<<2024, 4>>, <<2024, 5>>, <<2024, 6>>, <<2024, 7>>}

Range(f) == {f[i] : i \in DOMAIN f}

\* The whole store: the four tables.
Store == <<habits, completions, tasks, settings>>

\* C1: every habit_completions row has the id of a habit of table habits.
C1_CompletionsReferenceLiveHabit ==
    \A p \in PairsOf(completions) : p.habit_id \in HabitIdsOf(habits)

\* C2: at most one habit_completions row per (habit_id, date).
C2_OneRowPerHabitAndDate ==
    \A p \in BagToSet(completions) : CopiesIn(p, completions) = 1

\* C2's case: a pair toggled on, off and on again holds one row, beside
\* the row of another pair.
C2_Witness ==
    /\ last.op = "toggle_habit_completion"
    /\ last.ret
    /\ CopiesIn(Pair(last.hid, last.date), completions) = 1
    /\ Cardinality(PairsOf(completions)) >= 2

\* C3: a toggle that repeats the previous call leaves the set of
\* (habit_id, date) pairs as it was before the previous call.
C3_ToggleTwiceRestores ==
    [][(/\ last.op = "toggle_habit_completion"
        /\ last'.op = "toggle_habit_completion"
        /\ last'.hid = last.hid
        /\ last'.date = last.date)
       => PairsOf(completions') = last.before]_vars

\* C3's case: the second of two toggles of a pair that had no row, other
\* pairs being held: no row of the pair is left.
C3_Witness ==
    /\ last.op = "toggle_habit_completion"
    /\ last.again
    /\ ~last.ret
    /\ Pair(last.hid, last.date) \notin PairsOf(completions)
    /\ PairsOf(completions) # {}

\* C4: toggle returns true exactly when it created the pair's row, false
\* exactly when it deleted it, and always whether the row exists afterwards.
C4_ToggleReturnsNewState ==
    [][last'.op = "toggle_habit_completion"
       => LET p == Pair(last'.hid, last'.date)
              was == p \in PairsOf(completions)
              is == p \in PairsOf(completions')
          IN  /\ last'.ret <=> (~was /\ is)
              /\ ~last'.ret <=> (was /\ ~is)
              /\ last'.ret <=> is]_vars

\* C4's case: a toggle that returned false, having deleted the row.
C4_Witness ==
    /\ last.op = "toggle_habit_completion"
    /\ ~last.ret
    /\ Pair(last.hid, last.date) \in last.before
    /\ Pair(last.hid, last.date) \notin PairsOf(completions)

\* C5: delete_habit of an existing habit returns true, removes the habit
\* from the listing and every completion of it (no month has it as a key),
\* and a delete_habit of the same id right after returns false.
C5_DeleteRemovesHabitAndCompletions ==
    [][/\ (last'.op = "delete_habit" /\ last'.hid \in HabitIdsOf(habits))
          => /\ last'.ret
             /\ last'.hid \notin Range(IdsOfRows(get_all_habits(habits')))
             /\ \A p \in PairsOf(completions') : p.habit_id # last'.hid
             /\ \A ym \in Months :
                   last'.hid \notin MonthCompletionKeys(completions', ym[1], ym[2])
       /\ (/\ last.op = "delete_habit" /\ last.ret
           /\ last'.op = "delete_habit" /\ last'.hid = last.hid)
          => ~last'.ret]_vars

\* C5's case: a habit with completions has been deleted.
C5_Witness ==
    /\ last.op = "delete_habit"
    /\ last.ret
    /\ \E p \in last.before : p.habit_id = last.hid
    /\ habits # {}

\* C6: delete_habit returns true exactly when the habit existed, and a
\* call that returns false leaves the whole store as it was.
C6_DeleteFalseIsNoOp ==
    [][last'.op = "delete_habit"
       => /\ last'.ret <=> last'.hid \in HabitIdsOf(habits)
          /\ ~last'.ret => Store' = Store]_vars

\* A permutation of the ids of all existing habits.
IsPermutationOfAll(ids, H) ==
    /\ Range(ids) = HabitIdsOf(H)
    /\ Len(ids) = Cardinality(H)

\* C7: after update_habits_order with a permutation of all habit ids, the
\* listing has the ids in the order given.
C7_ReorderThenList ==
    (last.op = "update_habits_order" /\ IsPermutationOfAll(last.ids, habits))
    => IdsOfRows(get_all_habits(habits)) = last.ids

\* C7's case: all habits reordered against the order of their ids.
C7_Witness ==
    /\ last.op = "update_habits_order"
    /\ IsPermutationOfAll(last.ids, habits)
    /\ Len(last.ids) >= 2
    /\ last.ids[1] > last.ids[2]

\* C8: init_database on a store of this system leaves the order of the
\* listing (and the completions, tasks and settings) as it was.
C8_InitKeepsListing ==
    [][last'.op = "init_database"
       => /\ IdsOfRows(get_all_habits(habits')) = IdsOfRows(get_all_habits(habits))
          /\ completions' = completions
          /\ tasks' = tasks
          /\ settings' = settings]_vars

\* The 1-based position of id in ids.
PositionIn(ids, id) == CHOOSE i \in 1..Len(ids) : ids[i] = id

\* C9: update_habits_order with distinct existing ids gives each listed
\* habit its 0-based position as sort_order and changes nothing else.
C9_ReorderSetsPositions ==
    [][(last'.op = "update_habits_order" /\ Range(last'.ids) \subseteq HabitIdsOf(habits))
       => /\ HabitIdsOf(habits') = HabitIdsOf(habits)
          /\ Cardinality(habits') = Cardinality(habits)
          /\ \A h \in habits :
                [h EXCEPT !.sort_order =
                    IF h.id \in Range(last'.ids)
                       THEN PositionIn(last'.ids, h.id) - 1
                       ELSE h.sort_order] \in habits'
          /\ <<habitSeq, completions, tasks, settings>>'
                = <<habitSeq, completions, tasks, settings>>]_vars

\* C9's case: a partial list; the listed habit has sort_order 0, the other
\* keeps the sort_order init_database gave it.
C9_Witness ==
    /\ last.op = "update_habits_order"
    /\ Len(last.ids) = 1
    /\ \E g \in habits : g.id = last.ids[1] /\ g.sort_order = 0
    /\ \E h \in habits : h.id \notin Range(last.ids) /\ h.sort_order = h.id

----------------------------------------------------------------------------
(* Properties of the task repository *)

\* The rank the priorities are meant to have: high > medium > low.
PriorityRank(p) == CASE p = "high" -> 2 [] p = "medium" -> 1 [] p = "low" -> 0

\* C10: get_tasks_for_date returns exactly the tasks of the date, every
\* task of a higher priority before every task of a lower one, and tasks of
\* equal priority created at different times in creation order.
C10_TasksByPriorityThenCreation ==
    last.op = "get_tasks_for_date"
    => LET r == last.rows
       IN  /\ Range(r) = {t \in tasks : t.date = last.date}
           /\ Len(r) = Cardinality(Range(r))
           /\ \A i, j \in 1..Len(r) :
                 /\ PriorityRank(r[i].priority) > PriorityRank(r[j].priority) => i < j
                 /\ (/\ r[i].priority = r[j].priority
                     /\ r[i].created_at < r[j].created_at) => i < j

----------------------------------------------------------------------------
(* Month completions: get_habit_completions *)

Digits == {Digit(n) : n \in 0..9}

DigitValue(c) == CHOOSE n \in 0..9 : Digit(n) = c

\* Text that int() reads as a natural number: decimal digits (the signs,
\* blanks and underscores int() also accepts are in no date of the model).
IsDecimal(s) == s # <<>> /\ \A i \in 1..Len(s) : s[i] \in Digits

RECURSIVE IntOf(_)
IntOf(s) ==
    IF Len(s) = 1 THEN DigitValue(s[1])
    ELSE IntOf(SubSeq(s, 1, Len(s) - 1)) * 10 + DigitValue(s[Len(s)])

\* str.split(sep) for a separator of one character.
RECURSIVE SplitFrom(_, _, _)
SplitFrom(s, sep, field) ==
    IF s = <<>> THEN <<field>>
    ELSE IF Head(s) = sep THEN <<field>> \o SplitFrom(Tail(s), sep, <<>>)
    ELSE SplitFrom(Tail(s), sep, Append(field, Head(s)))

split(s, sep) == SplitFrom(s, sep, <<>>)

\* The number of rows of bag C among the pairs S.
RECURSIVE SumCopies(_, _)
SumCopies(S, C) ==
    IF S = {} THEN 0
    ELSE LET p == CHOOSE q \in S : TRUE IN C[p] + SumCopies(S \ {p}, C)

\* get_habit_completions(year, month): each selected row appends
\* int(date.split("-")[2]) to the list of its habit_id.  The rows come in
\* no stated order, so a list of days is modelled as the bag of its
\* elements.  A selected date with fewer than three fields raises
\* IndexError, a third field that is no number ValueError.
get_habit_completions(C, year, month) ==
    LET rows == MonthRows(C, year, month)
        fields(p) == split(p.date, "-")
        day(p) == IntOf(fields(p)[3])
        daysOf(h) == {day(p) : p \in {q \in rows : q.habit_id = h}}
    IN  IF \E p \in rows : Len(fields(p)) < 3
            THEN [raised |-> "IndexError", out |-> <<>>]
        ELSE IF \E p \in rows : ~IsDecimal(fields(p)[3])
            THEN [raised |-> "ValueError", out |-> <<>>]
        ELSE [raised |-> "none",
              out |-> [h \in {p.habit_id : p \in rows} |->
                         [d \in daysOf(h) |->
                            SumCopies({p \in rows : p.habit_id = h /\ day(p) = d},
                                      C)]]]

\* A call that opened k connections ends: it has closed them when it
\* returns; when it raises, conn.close() was not reached and they stay open.
Leave(call, k) ==
    LET left == IF call.raised = "none" THEN 0 ELSE k
    IN  /\ conns + left <= MaxConns
        /\ conns' = conns + left

\* get_habit_completions as a call; ids holds the arguments (year, month).
month_completions(year, month) ==
    /\ LET r == get_habit_completions(completions, year, month)
       IN  last' = [Call("get_habit_completions", 0, <<>>, <<year, month>>,
                         r.raised = "none", <<>>)
                       EXCEPT !.out = r.out, !.raised = r.raised]
    /\ UNCHANGED <<habits, habitSeq, completions, tasks, taskSeq, settings, now,
                   today, txn, givenIds>>
    /\ Leave(last', 1)

\* Dates that share a day number across months and years, and a day of two
\* digits.
MonthDateStrs ==
    {isoformat(2024, 6, 1), isoformat(2024, 6, 10), isoformat(2024, 5, 1),
     isoformat(2023, 6, 1)}

\* The (year, month) arguments: the months of MonthDateStrs and a month
\* with no completion.
MonthArgs == {<<2024, 6>>, <<2024, 5>>, <<2023, 6>>, <<2024, 7>>}

\* The habits of the store the month's completions are read from.
MonthHabitIds == {1, 2}

\* A store whose habits were created in an earlier run of the program
\* (init_database has given each its id as sort_order).
InitMonth ==
    /\ habits = {[id |-> i, name |-> "Read", sort_order |-> i] : i \in MonthHabitIds}
    /\ habitSeq = 2
    /\ completions = EmptyBag
    /\ tasks = {}
    /\ taskSeq = 0
    /\ settings = {}
    /\ now = 0
    /\ today = toordinal(2024, 6, 10)
    /\ txn = NoTxn
    /\ givenIds = 1..habitSeq
    /\ conns = 0
    /\ last = NoCall

NextMonth ==
    \/ \E hid \in MonthHabitIds, d \in MonthDateStrs :
          toggle_habit_completion(hid, d)
    \/ \E ym \in MonthArgs : month_completions(ym[1], ym[2])

SpecMonth == InitMonth /\ [][NextMonth]_vars

\* C11: get_habit_completions(year, month) returns normally and maps habit
\* id h to day d exactly when the row (h, year-month-d) exists; every key
\* has at least one day and every day is listed once.
C11_MonthCompletionsExact ==
    last.op = "get_habit_completions"
    => LET year == last.ids[1]
           month == last.ids[2]
           out == last.out
       IN  /\ last.raised = "none"
           /\ \A h \in DOMAIN out :
                 /\ DOMAIN out[h] # {}
                 /\ DOMAIN out[h] \subseteq 1..31
                 /\ \A d \in DOMAIN out[h] : out[h][d] = 1
           /\ \A p \in PairsOf(completions) :
                 p.date \in {isoformat(year, month, d) : d \in 1..31}
                 => p.habit_id \in DOMAIN out
           /\ \A h \in DOMAIN out : \A d \in 1..31 :
                 d \in DOMAIN out[h]
                 <=> Pair(h, isoformat(year, month, d)) \in PairsOf(completions)

\* C11's case: June 2024 is asked; one habit has the days 1 and 10, the
\* store also holds the 1st of May 2024 and of June 2023, and another
\* habit, completed in other months only, is left out.
C11_Witness ==
    /\ last.op = "get_habit_completions"
    /\ last.ids = <<2024, 6>>
    /\ \E h \in DOMAIN last.out : DOMAIN last.out[h] = {1, 10}
    /\ \E g \in HabitIdsOf(habits) :
          /\ g \notin DOMAIN last.out
          /\ Pair(g, isoformat(2024, 5, 1)) \in PairsOf(completions)
          /\ Pair(g, isoformat(2023, 6, 1)) \in PairsOf(completions)

----------------------------------------------------------------------------
(* Properties of toggle_task *)

\* C12: toggle_task(id) on an existing task negates its completed flag,
\* returns the new flag and changes no other task and no other table; on an
\* id with no task it returns False and the store is unchanged; a second
\* consecutive toggle_task(id) brings back the tasks as they were before
\* the first.  (A step that leaves the clock alone and ends with toggle_task
\* as the last call is a toggle_task call.)
C12_ToggleTaskFlips ==
    [][(last'.op = "toggle_task" /\ now' = now)
       => LET tid == last'.hid
          IN  /\ \A t \in tasks : t.id = tid =>
                    /\ tasks' = (tasks \ {t})
                                \cup {[t EXCEPT !.completed = 1 - t.completed]}
                    /\ last'.ret <=> (t.completed = 0)
              /\ (~\E t \in tasks : t.id = tid) =>
                    /\ ~last'.ret
                    /\ Store' = Store
              /\ <<habits, completions, settings>>' = <<habits, completions, settings>>
              /\ (last.op = "toggle_task" /\ last.hid = tid) => tasks' = last.before]_vars

\* C12's case: a task toggled twice in a row is open again, beside another
\* task that stayed completed.
C12_Witness ==
    /\ last.op = "toggle_task"
    /\ last.again
    /\ ~last.ret
    /\ \E t \in tasks : t.id = last.hid /\ t.completed = 0
    /\ \E u \in tasks : u.id # last.hid /\ u.completed = 1

----------------------------------------------------------------------------
(* Settings: get_setting and set_setting *)

SettingKeys == {"theme", "week_start"}

SettingValues == {"dark", "light", ""}

SettingDefaults == {"", "system"}

\* SELECT value FROM settings WHERE key = ?, then fetchone(): the value of
\* a row with the key, the default when there is none.
GetSettingResults(S, key, default) ==
    IF \E r \in S : r.key = key THEN {r.value : r \in {q \in S : q.key = key}}
    ELSE {default}

\* get_setting as a call; again tells that the call before it was a
\* set_setting of the same key that was not the key's first.
get_setting(key, default) ==
    /\ \E v \in GetSettingResults(settings, key, default) :
          last' = [Call("get_setting", 0, <<>>, <<key, default>>, TRUE, <<>>)
                     EXCEPT !.out = v, !.sets = last.sets,
                            !.again = (/\ last.op = "set_setting"
                                       /\ last.again
                                       /\ last.ids[1] = key)]
    /\ UNCHANGED <<habits, habitSeq, completions, tasks, taskSeq, settings, now,
                   today, txn, givenIds, conns>>

\* Faulty variant of set_setting: INSERT OR IGNORE keeps the row of a key
\* that has one.
set_setting_InsertOrIgnore(key, value) ==
    /\ settings' = IF \E r \in settings : r.key = key THEN settings
                   ELSE settings \cup {[key |-> key, value |-> value]}
    /\ last' = [Call("set_setting", 0, <<>>, <<key, value>>, TRUE, <<>>)
                  EXCEPT !.again = (key \in DOMAIN last.sets),
                         !.sets = [k \in DOMAIN last.sets \cup {key} |->
                                     IF k = key THEN value ELSE last.sets[k]]]
    /\ UNCHANGED <<habits, habitSeq, completions, tasks, taskSeq, now, today, txn,
                   givenIds, conns>>

\* set_setting: INSERT OR REPLACE INTO settings (key, value); key is the
\* table's PRIMARY KEY, so the row that has the key is deleted first.
set_setting(key, value) ==
    /\ settings' = {r \in settings : r.key # key}
                   \cup {[key |-> key, value |-> value]}
    /\ last' = [Call("set_setting", 0, <<>>, <<key, value>>, TRUE, <<>>)
                  EXCEPT !.again = (key \in DOMAIN last.sets),
                         !.sets = [k \in DOMAIN last.sets \cup {key} |->
                                     IF k = key THEN value ELSE last.sets[k]]]
    /\ UNCHANGED <<habits, habitSeq, completions, tasks, taskSeq, now, today, txn,
                   givenIds, conns>>

NextSettings ==
    \/ \E key \in SettingKeys, value \in SettingValues : set_setting(key, value)
    \/ \E key \in SettingKeys, default \in SettingDefaults : get_setting(key, default)

SpecSettings == Init /\ [][NextSettings]_vars

\* C13: get_setting(k, d) returns the value of the latest set_setting(k, .)
\* made so far, and d when none was made; set_setting on one key changes
\* the result of get_setting for no other key; table settings holds at most
\* one row per key.
C13_LastWriteWins ==
    [][/\ last'.op = "get_setting"
          => LET k == last'.ids[1]
                 d == last'.ids[2]
             IN  last'.out = IF k \in DOMAIN last'.sets THEN last'.sets[k] ELSE d
       /\ last'.op = "set_setting"
          => \A k \in SettingKeys \ {last'.ids[1]}, d \in SettingDefaults :
                GetSettingResults(settings', k, d) = GetSettingResults(settings, k, d)
       /\ \A r, q \in settings' : r.key = q.key => r = q]_vars

\* C13's case: a key is read right after its value was set anew and gives
\* the new value, while the other key has never been set.
C13_Witness ==
    /\ last.op = "get_setting"
    /\ last.again
    /\ last.ids[1] = "theme"
    /\ last.out = "light"
    /\ last.ids[2] = "system"
    /\ [key |-> "theme", value |-> "light"] \in settings
    /\ ~\E r \in settings : r.key = "week_start"

----------------------------------------------------------------------------
(* Statistics and reports: the read-only derivations *)

\* The window of the dashboard streak (for i in range(30)), the LIMIT of
\* the query that feeds it, and the days of a week of weekly data.
StreakDays == 30

DatesLimit == 30

WeekLength == 7

\* The bytes of a date's text (digits and dashes), which SQLite's BINARY
\* collation compares in ORDER BY date and in date >= ?.
CharCode(c) == IF c = "-" THEN 45 ELSE 48 + DigitValue(c)

\* memcmp order of two dates' texts: the first differing character decides,
\* a proper prefix is smaller.
DateLess(a, b) ==
    LET n == IF Len(a) <= Len(b) THEN Len(a) ELSE Len(b)
        diff == {i \in 1..n : a[i] # b[i]}
    IN  IF diff = {} THEN Len(a) < Len(b)
        ELSE LET i == CHOOSE j \in diff : \A k \in diff : j <= k
             IN  CharCode(a[i]) < CharCode(b[i])

\* SELECT COUNT(*) FROM habit_completions WHERE date = ?
CountOn(C, d) == SumCopies({p \in BagToSet(C) : p.date = d}, C)

\* round(x, 1) of the quotient n / d, in tenths: the nearest tenth, a tie
\* going to the even one.  (Python rounds the float nearest to the
\* quotient; for the small counts of the model the two agree.)
RoundHalfEven(n, d) ==
    LET q == n \div d
        r == n % d
    IN  IF 2 * r < d THEN q
        ELSE IF 2 * r > d THEN q + 1
        ELSE IF q % 2 = 0 THEN q ELSE q + 1

\* (part / total * 100) if total > 0 else 0, as a fraction.
RateOf(part, total) ==
    IF total > 0 THEN [n |-> part * 100, d |-> total] ELSE [n |-> 0, d |-> 1]

\* round(rate, 1) in tenths of a percent: 333 stands for 33.3.
Round1(rate) == RoundHalfEven(rate.n * 10, rate.d)

\* strftime("%a")
DayName(n) == <<"Mon", "Tue", "Wed", "Thu", "Fri", "Sat", "Sun">>[weekday(n) + 1]

\* One entry of weekly_data for the day with ordinal n.
WeekEntry(H, C, n) ==
    LET completed == CountOn(C, DateStr(n))
    IN  [date |-> DateStr(n), day |-> DayName(n),
         percentage |-> Round1(RateOf(completed, Cardinality(H))),
         completed |-> completed]

\* SELECT DISTINCT date FROM habit_completions ORDER BY date DESC LIMIT n:
\* the n greatest dates of the table, as text.
LatestDates(C, n) ==
    LET D == {p.date : p \in BagToSet(C)}
    IN  {d \in D : Cardinality({e \in D : DateLess(d, e)}) < n}

\* The streak loop of get_statistics, from its i-th round on.
RECURSIVE StreakScan(_, _, _, _)
StreakScan(dates, current_date, i, streak) ==
    IF i = StreakDays THEN streak
    ELSE IF DateStr(current_date - i) \in dates
        THEN StreakScan(dates, current_date, i + 1, streak + 1)
    ELSE IF i > 0 THEN streak
    ELSE StreakScan(dates, current_date, i + 1, streak)

\* get_statistics() on the day with ordinal day.
get_statistics(H, C, T, day) ==
    LET total_habits == Cardinality(H)
        today_completions == CountOn(C, DateStr(day))
        todays == {t \in T : t.date = DateStr(day)}
    IN  [total_habits |-> total_habits,
         today_completions |-> today_completions,
         today_tasks_total |-> Cardinality(todays),
         today_tasks_done |-> Cardinality({t \in todays : t.completed = 1}),
         streak |-> StreakScan(LatestDates(C, DatesLimit), day, 0, 0),
         weekly_data |-> [i \in 1..WeekLength |->
                            WeekEntry(H, C, day - (WeekLength - i))],
         completion_rate |-> Round1(RateOf(today_completions, total_habits))]

\* datetime.strptime(s, "%Y-%m-%d").date(): a year of four digits, a month
\* and a day of one or two, and a date of the calendar; ok is FALSE where
\* strptime raises ValueError.
strptime(s) ==
    LET f == split(s, "-")
    IN  IF /\ Len(f) = 3
           /\ Len(f[1]) = 4 /\ IsDecimal(f[1])
           /\ Len(f[2]) \in {1, 2} /\ IsDecimal(f[2])
           /\ Len(f[3]) \in {1, 2} /\ IsDecimal(f[3])
           /\ IntOf(f[1]) >= 1
           /\ IntOf(f[2]) \in 1..12
           /\ IntOf(f[3]) \in 1..days_in_month(IntOf(f[1]), IntOf(f[2]))
        THEN [ok |-> TRUE, ord |-> toordinal(IntOf(f[1]), IntOf(f[2]), IntOf(f[3]))]
        ELSE [ok |-> FALSE, ord |-> 0]

\* get_weekly_data(start_date_str): seven days from the start date on.
get_weekly_data(H, C, start_date_str) ==
    LET start == strptime(start_date_str)
        entry(n) == LET e == WeekEntry(H, C, n)
                    IN  [date |-> e.date, day |-> e.day,
                         day_num |-> fromordinal(n).d,
                         percentage |-> e.percentage, completed |-> e.completed]
    IN  IF ~start.ok THEN [raised |-> "ValueError", out |-> <<>>]
        ELSE [raised |-> "none",
              out |-> [i \in 1..WeekLength |-> entry(start.ord + i - 1)]]

\* The mean of two rates.
Mean2(a, b) == [n |-> a.n * b.d + b.n * a.d, d |-> 2 * a.d * b.d]

\* A set of numbers as an ascending list.
RECURSIVE Ascending(_)
Ascending(S) ==
    IF S = {} THEN <<>>
    ELSE LET m == CHOOSE x \in S : \A y \in S : x <= y
         IN  <<m>> \o Ascending(S \ {m})

\* Faulty variant of LeftJoinRows: an inner join.
LeftJoinRows_Inner(n) == n

\* The rows a LEFT JOIN gives for a left row that n right rows match.
LeftJoinRows(n) == IF n = 0 THEN 1 ELSE n

\* habits h LEFT JOIN habit_completions hc ON h.id = hc.habit_id AND
\* hc.date = ?, for the habits hs in listing order: completed is
\* CASE WHEN hc.id IS NOT NULL THEN 1 ELSE 0 END.
RECURSIVE JoinCompletions(_, _, _)
JoinCompletions(hs, C, target_date) ==
    IF hs = <<>> THEN <<>>
    ELSE LET h == Head(hs)
             n == CopiesIn(Pair(h.id, target_date), C)
             row == [id |-> h.id, name |-> h.name,
                     completed |-> IF n > 0 THEN 1 ELSE 0]
         IN  [i \in 1..LeftJoinRows(n) |-> row]
                 \o JoinCompletions(Tail(hs), C, target_date)

\* get_daily_report(target_date).  The habits come from the LEFT JOIN in
\* (sort_order, id) order; the day's tasks come in (start_time, id) order,
\* which is id order for the tasks of the model (created without a start
\* time).
get_daily_report(H, C, T, target_date) ==
    LET rows == JoinCompletions(get_all_habits(H), C, target_date)
        ts == {t \in T : t.date = target_date}
        habits_completed ==
            Cardinality({i \in 1..Len(rows) : rows[i].completed # 0})
        tasks_completed == Cardinality({t \in ts : t.completed # 0})
        habit_rate == RateOf(habits_completed, Len(rows))
        task_rate == RateOf(tasks_completed, Cardinality(ts))
        overall_score == IF rows # <<>> \/ ts # {}
                             THEN Mean2(habit_rate, task_rate)
                             ELSE [n |-> 0, d |-> 1]
    IN  [date |-> target_date,
         habits |-> rows,
         tasks |-> Ascending({t.id : t \in ts}),
         habits_completed |-> habits_completed,
         habits_total |-> Len(rows),
         tasks_completed |-> tasks_completed,
         tasks_total |-> Cardinality(ts),
         habit_rate |-> Round1(habit_rate),
         task_rate |-> Round1(task_rate),
         overall_score |-> Round1(overall_score)]

RECURSIVE SumSeq(_)
SumSeq(s) == IF s = <<>> THEN 0 ELSE Head(s) + SumSeq(Tail(s))

\* get_monthly_trends(year, month): one entry per day of the month.  The
\* day's date is written f"{year}-{month:02d}-{day:02d}" (the year is not
\* padded); calendar.monthrange raises for a month outside 1..12.
get_monthly_trends(H, C, T, year, month) ==
    LET total_habits == Cardinality(H)
        entry(day) ==
            LET date_str == Decimal(year) \o <<"-">> \o Pad2(month) \o <<"-">>
                            \o Pad2(day)
                habits_done == CountOn(C, date_str)
                ts == {t \in T : t.date = date_str}
                tasks_done == Cardinality({t \in ts : t.completed = 1})
            IN  [date |-> date_str, day |-> day,
                 habits_done |-> habits_done, habits_total |-> total_habits,
                 habit_rate |-> Round1(RateOf(habits_done, total_habits)),
                 tasks_done |-> tasks_done, tasks_total |-> Cardinality(ts),
                 task_rate |-> Round1(RateOf(tasks_done, Cardinality(ts)))]
        daily_data == [day \in 1..days_in_month(year, month) |-> entry(day)]
        n == Len(daily_data)
        task_days == {i \in 1..n : daily_data[i].tasks_total > 0}
        habit_sum == SumSeq([i \in 1..n |-> daily_data[i].habit_rate])
        task_sum == SumSeq([i \in 1..n |->
                              IF i \in task_days THEN daily_data[i].task_rate
                              ELSE 0])
    IN  IF month \notin 1..12 THEN [raised |-> "IllegalMonthError", out |-> <<>>]
        ELSE [raised |-> "none",
              out |-> [year |-> year, month |-> month,
                       daily_data |-> daily_data,
                       avg_habit_rate |->
                           IF n > 0 THEN RoundHalfEven(habit_sum, n) ELSE 0,
                       avg_task_rate |->
                           IF task_days # {}
                               THEN RoundHalfEven(task_sum, Cardinality(task_days))
                               ELSE 0]]

\* Faulty variant of CurrentStreak: the completed days of the last thirty
\* are counted, a gap does not end the count.
CurrentStreak_GapsIgnored(dates, day) ==
    Cardinality({k \in 0..29 : DateStr(day - k) \in dates})

\* The while loop of get_habit_streaks: the days back from day whose date
\* is among the habit's completion dates, up to the first that is not.
RECURSIVE CurrentStreak(_, _)
CurrentStreak(dates, day) ==
    IF DateStr(day) \in dates THEN 1 + CurrentStreak(dates, day - 1) ELSE 0

RECURSIVE Repeat(_, _)
Repeat(x, k) == IF k = 0 THEN <<>> ELSE <<x>> \o Repeat(x, k - 1)

\* sorted(...) of the parsed dates of a habit: B gives the number of rows
\* of each day.
RECURSIVE SortedDates(_)
SortedDates(B) ==
    IF DOMAIN B = {} THEN <<>>
    ELSE LET m == CHOOSE x \in DOMAIN B : \A y \in DOMAIN B : x <= y
         IN  Repeat(m, B[m]) \o SortedDates([x \in DOMAIN B \ {m} |-> B[x]])

Max2(a, b) == IF a >= b THEN a ELSE b

\* Faulty variant of BestScan: the streak is never reset at a gap.
BestScan_NeverReset(sorted_dates, i, streak, best_streak) == Len(sorted_dates)

\* The best-streak loop over sorted_dates, from index i on.
RECURSIVE BestScan(_, _, _, _)
BestScan(sorted_dates, i, streak, best_streak) ==
    IF i > Len(sorted_dates) THEN Max2(best_streak, streak)
    ELSE IF sorted_dates[i] - sorted_dates[i - 1] = 1
        THEN BestScan(sorted_dates, i + 1, streak + 1, best_streak)
    ELSE BestScan(sorted_dates, i + 1, 1, Max2(best_streak, streak))

\* The entry get_habit_streaks computes for habit h.
HabitStreak(h, C, day) ==
    LET rows == {p \in BagToSet(C) : p.habit_id = h.id}
        dates == {p.date : p \in rows}
        ords == {strptime(d).ord : d \in dates}
        sorted_dates ==
            SortedDates([o \in ords |->
                           SumCopies({p \in rows : strptime(p.date).ord = o}, C)])
    IN  [id |-> h.id, name |-> h.name,
         current_streak |-> CurrentStreak(dates, day),
         best_streak |-> IF rows = {} THEN 0 ELSE BestScan(sorted_dates, 2, 1, 0),
         total_completions |-> SumCopies(rows, C)]

\* get_habit_streaks() on the day with ordinal day: the habits in
\* (sort_order, id) order, each with its streaks.  strptime raises
\* ValueError on a completion date of a habit that is no date.
get_habit_streaks(H, C, day) ==
    LET hs == get_all_habits(H)
    IN  IF \E p \in BagToSet(C) :
              p.habit_id \in HabitIdsOf(H) /\ ~strptime(p.date).ok
            THEN [raised |-> "ValueError", out |-> <<>>]
        ELSE [raised |-> "none",
              out |-> [i \in 1..Len(hs) |-> HabitStreak(hs[i], C, day)]]

\* Faulty variant of FirstMaxIndex: of the entries with the greatest value
\* the last one is taken.
FirstMaxIndex_Last(values) ==
    CHOOSE i \in 1..Len(values) :
        /\ \A j \in 1..Len(values) : values[j] <= values[i]
        /\ \A j \in (i + 1)..Len(values) : values[j] # values[i]

\* next((h for h in habit_streaks if h['best_streak'] == best_streak), None)
\* and max(habit_streaks, key=...): the index of the first entry of a
\* non-empty list that has the greatest value.
FirstMaxIndex(values) ==
    CHOOSE i \in 1..Len(values) :
        /\ \A j \in 1..Len(values) : values[j] <= values[i]
        /\ \A j \in 1..(i - 1) : values[j] # values[i]

\* The entry of the list with the first greatest value, None (here the
\* empty set) for an empty list.
FirstWithMax(s, values) == IF s = <<>> THEN {} ELSE {s[FirstMaxIndex(values)]}

\* get_analytics_summary() on the day with ordinal day.  An optional value
\* is the set of its values: None is the empty set.
get_analytics_summary(H, C, T, day) ==
    LET streaks == get_habit_streaks(H, C, day)
        habit_streaks == streaks.out
        best_habit ==
            FirstWithMax(habit_streaks,
                         [i \in 1..Len(habit_streaks) |-> habit_streaks[i].best_streak])
        most_consistent ==
            FirstWithMax(habit_streaks,
                         [i \in 1..Len(habit_streaks) |->
                            habit_streaks[i].total_completions])
        week_start_str == DateStr(day - weekday(day))
        total_habits == Cardinality(H)
    IN  IF streaks.raised # "none" THEN streaks
        ELSE [raised |-> "none",
              out |->
                [best_streak |->
                     IF best_habit = {} THEN 0
                     ELSE (CHOOSE h \in best_habit : TRUE).best_streak,
                 best_streak_habit |-> {h.name : h \in best_habit},
                 most_consistent_habit |-> {h.name : h \in most_consistent},
                 most_consistent_completions |->
                     IF most_consistent = {} THEN 0
                     ELSE (CHOOSE h \in most_consistent : TRUE).total_completions,
                 total_habit_completions |-> BagCardinality(C),
                 total_tasks_completed |->
                     Cardinality({t \in T : t.completed = 1}),
                 week_habit_completions |->
                     SumCopies({p \in BagToSet(C) :
                                  ~DateLess(p.date, week_start_str)}, C),
                 week_tasks_completed |->
                     Cardinality({t \in T : /\ ~DateLess(t.date, week_start_str)
                                            /\ t.completed = 1}),
                 today_completion_rate |->
                     Round1(RateOf(CountOn(C, DateStr(day)), total_habits)),
                 habit_streaks |-> habit_streaks]]

----------------------------------------------------------------------------
(* The reads as calls *)

Returned(v) == [raised |-> "none", out |-> v]

\* The record of a read made on the day with ordinal day: its result, or
\* the exception it raised; again tells that the call before it was the same
\* read with the same arguments, made on the same day.
ReadCall(op, args, r, day) ==
    [Call(op, 0, <<>>, args, r.raised = "none", <<>>)
       EXCEPT !.out = r.out, !.raised = r.raised, !.on = day,
              !.again = (last.op = op /\ last.ids = args /\ last.on = day)]

\* Faulty variant of statistics: the streak it computed is kept in table
\* settings.
statistics_Persisting ==
    /\ settings' = {r \in settings : r.key # "current_streak"}
                   \cup {[key |-> "current_streak", value |-> "computed"]}
    /\ last' = ReadCall("get_statistics", <<>>,
                        Returned(get_statistics(habits, completions, tasks, today)),
                        today)
    /\ UNCHANGED <<habits, habitSeq, completions, tasks, taskSeq, now, today, txn,
                   givenIds, conns>>

statistics ==
    /\ last' = ReadCall("get_statistics", <<>>,
                        Returned(get_statistics(habits, completions, tasks, today)),
                        today)
    /\ UNCHANGED <<habits, habitSeq, completions, tasks, taskSeq, settings, now,
                   today, txn, givenIds, conns>>

weekly_data(start_date_str) ==
    /\ last' = ReadCall("get_weekly_data", <<start_date_str>>,
                        get_weekly_data(habits, completions, start_date_str), today)
    /\ UNCHANGED <<habits, habitSeq, completions, tasks, taskSeq, settings, now,
                   today, txn, givenIds>>
    /\ Leave(last', 1)

daily_report(target_date) ==
    /\ last' = ReadCall("get_daily_report", <<target_date>>,
                        Returned(get_daily_report(habits, completions, tasks,
                                                  target_date)),
                        today)
    /\ UNCHANGED <<habits, habitSeq, completions, tasks, taskSeq, settings, now,
                   today, txn, givenIds, conns>>

monthly_trends(year, month) ==
    /\ last' = ReadCall("get_monthly_trends", <<year, month>>,
                        get_monthly_trends(habits, completions, tasks, year, month),
                        today)
    /\ UNCHANGED <<habits, habitSeq, completions, tasks, taskSeq, settings, now,
                   today, txn, givenIds>>
    /\ Leave(last', 1)

habit_streaks ==
    /\ last' = ReadCall("get_habit_streaks", <<>>,
                        get_habit_streaks(habits, completions, today), today)
    /\ UNCHANGED <<habits, habitSeq, completions, tasks, taskSeq, settings, now,
                   today, txn, givenIds>>
    /\ Leave(last', 1)

analytics_summary ==
    /\ last' = ReadCall("get_analytics_summary", <<>>,
                        get_analytics_summary(habits, completions, tasks, today),
                        today)
    /\ UNCHANGED <<habits, habitSeq, completions, tasks, taskSeq, settings, now,
                   today, txn, givenIds>>
    /\ Leave(last', 2)

\* The days the program is first looked at: a Saturday early in a year and
\* the day after a 29th of February.
StartDays == {toordinal(2024, 1, 6), toordinal(2024, 3, 1)}

\* Midnight passes.
NextDay ==
    /\ today \in StartDays
    /\ today' = today + 1
    /\ UNCHANGED <<habits, habitSeq, completions, tasks, taskSeq, settings, now,
                   txn, last, givenIds, conns>>

----------------------------------------------------------------------------
(* The dashboard streak over long histories *)

MaxRun == 31
MaxGap == 1
MaxFuture == 1

\* The dates of a history: n days in a row up to g days before day, and
\* the f days after day.
RunHistory(day, n, g, f) ==
    {DateStr(d) : d \in (day - g - n + 1)..(day - g)}
    \cup {DateStr(d) : d \in (day + 1)..(day + f)}

\* A store with one habit and such a history, written in earlier runs of
\* the program.
InitStreak ==
    /\ today \in StartDays
    /\ habits = {[id |-> 1, name |-> "Read", sort_order |-> 1]}
    /\ habitSeq = 1
    /\ \E n \in 0..MaxRun, g \in 0..MaxGap, f \in 0..MaxFuture :
          completions = SetToBag({Pair(1, d) : d \in RunHistory(today, n, g, f)})
    /\ tasks = {}
    /\ taskSeq = 0
    /\ settings = {}
    /\ now = 0
    /\ txn = NoTxn
    /\ givenIds = 1..habitSeq
    /\ conns = 0
    /\ last = NoCall

NextStreak ==
    \/ statistics
    \/ \E d \in {today - 1, today} : toggle_habit_completion(1, DateStr(d))
    \/ NextDay

SpecStreak == InitStreak /\ [][NextStreak]_vars

\* Some row of habit_completions has the date of the day with ordinal n.
CompletedOn(C, n) == \E p \in BagToSet(C) : p.date = DateStr(n)

\* The streak as defined: the days counted backward from day over
\* day-29..day that have a completion row, the scan stopping at the first
\* day other than day itself that has none.
RECURSIVE WindowStreak(_, _, _)
WindowStreak(C, day, i) ==
    IF i = StreakDays THEN 0
    ELSE IF CompletedOn(C, day - i) THEN 1 + WindowStreak(C, day, i + 1)
    ELSE IF i = 0 THEN WindowStreak(C, day, i + 1)
    ELSE 0

\* C14: the streak get_statistics reports is the streak as defined, and is
\* at most 30.
C14_StreakCountsWindow ==
    last.op = "get_statistics" /\ last.on = today
    => /\ last.out.streak = WindowStreak(completions, today, 0)
       /\ last.out.streak <= StreakDays

----------------------------------------------------------------------------
(* The reports over stores of two habits *)

SpanDays == 6

\* A text in the form of a date that names no day of the calendar; the
\* toggle route stores any text it is given.
BadDate == isoformat(2024, 2, 30)

\* The stores looked at: no habit, or two habits in either listing order
\* or fresh from create_habit (sort_order 0); the first habit completed on
\* any of the span days up to today, the second on any of the last two
\* days and possibly on BadDate; no task, or a completed and an open task
\* dated today.  With no habit the completion rows are rows of habits that
\* are no more.
InitOver(span) ==
    /\ today \in StartDays
    /\ habits \in {{}} \cup
                  {{[id |-> 1, name |-> "Read", sort_order |-> so[1]],
                    [id |-> 2, name |-> "Run", sort_order |-> so[2]]} :
                       so \in {<<1, 2>>, <<2, 1>>, <<0, 0>>}}
    /\ habitSeq = 2
    /\ \E D1 \in SUBSET {DateStr(d) : d \in (today - span + 1)..today},
          D2 \in SUBSET {DateStr(today - 1), DateStr(today), BadDate} :
          completions = SetToBag({Pair(1, d) : d \in D1} \cup {Pair(2, d) : d \in D2})
    /\ tasks \in {{},
                  {[id |-> 1, title |-> "Write", date |-> DateStr(today),
                    completed |-> 1, priority |-> "medium", created_at |-> 0],
                   [id |-> 2, title |-> "Write", date |-> DateStr(today),
                    completed |-> 0, priority |-> "medium", created_at |-> 0]}}
    /\ taskSeq = 2
    /\ settings = {}
    /\ now = 0
    /\ txn = NoTxn
    /\ givenIds = 1..habitSeq
    /\ conns = 0
    /\ last = NoCall

\* The streaks read no task: the stores without tasks are looked at.
InitAnalytics == InitOver(SpanDays) /\ tasks = {}

NextAnalytics ==
    \/ habit_streaks
    \/ analytics_summary

SpecAnalytics == InitAnalytics /\ [][NextAnalytics]_vars

InitReports == InitOver(2)

NextReports ==
    \/ statistics
    \/ weekly_data(DateStr(today - WeekLength + 1))
    \/ daily_report(DateStr(today))
    \/ \E m \in {fromordinal(today).m, fromordinal(today).m + 1} :
          monthly_trends(fromordinal(today).y, m)
    \/ analytics_summary

SpecReports == InitReports /\ [][NextReports]_vars

----------------------------------------------------------------------------
(* Properties of the streaks *)

\* Every completion date of a habit of table habits names a day of the
\* calendar.
HistoriesAreDates ==
    \A p \in PairsOf(completions) :
        p.habit_id \in HabitIdsOf(habits) => strptime(p.date).ok

\* The dates of the completion rows of habit hid.
DatesOf(hid) == {p.date : p \in {q \in PairsOf(completions) : q.habit_id = hid}}

\* C15: for histories of calendar dates get_habit_streaks returns, with an
\* entry for every habit, and each entry's current_streak is the largest n
\* such that the habit has a row on each of today, today-1, ...,
\* today-(n-1); it is 0 when the habit has no row dated today.
C15_CurrentStreakFromToday ==
    (last.op = "get_habit_streaks" /\ last.on = today /\ HistoriesAreDates)
    => /\ last.raised = "none"
       /\ {last.out[i].id : i \in 1..Len(last.out)} = HabitIdsOf(habits)
       /\ \A i \in 1..Len(last.out) :
             LET hid == last.out[i].id
                 n == last.out[i].current_streak
             IN  /\ \A k \in 0..(n - 1) : DateStr(today - k) \in DatesOf(hid)
                 /\ DateStr(today - n) \notin DatesOf(hid)
                 /\ DateStr(today) \notin DatesOf(hid) => n = 0

\* C15's case: on the 1st of March 2024 one habit has a streak of three
\* days that goes back over the 29th of February, and the other, completed
\* the day before only, has streak 0.
C15_Witness ==
    /\ last.op = "get_habit_streaks"
    /\ today = toordinal(2024, 3, 1)
    /\ \E i, j \in 1..Len(last.out) :
          /\ last.out[i].current_streak = 3
          /\ last.out[j].current_streak = 0
          /\ DatesOf(last.out[j].id) = {DateStr(today - 1)}

\* The days around today whose date habit hid has a row for.
DaysOf(hid) ==
    {d \in (today - SpanDays - 1)..(today + 1) : DateStr(d) \in DatesOf(hid)}

\* The length of the longest run of consecutive days in a set of days.
LongestRun(S) ==
    IF S = {} THEN 0
    ELSE CHOOSE n \in 1..Cardinality(S) :
            /\ \E d \in S : \A k \in 0..(n - 1) : d + k \in S
            /\ ~\E d \in S : \A k \in 0..n : d + k \in S

C20_FirstHabitWithMaximum ==
    (last.op = "get_analytics_summary" /\ last.on = today /\ HistoriesAreDates)
    => /\ last.raised = "none"
       /\ LET hs == last.out.habit_streaks
              n == Len(hs)
              so(i) == (CHOOSE h \in habits : h.id = hs[i].id).sort_order
              best(i) == hs[i].best_streak
              total(i) == hs[i].total_completions
              FirstTop(key(_)) ==
                  {hs[i].name :
                     i \in {j \in 1..n : /\ \A k \in 1..n : key(k) <= key(j)
                                         /\ \A k \in 1..(j - 1) : key(k) < key(j)}}
          IN  /\ {hs[i].id : i \in 1..n} = HabitIdsOf(habits)
              /\ \A i, j \in 1..n :
                    i < j => \/ so(i) < so(j)
                             \/ so(i) = so(j) /\ hs[i].id < hs[j].id
              /\ last.out.best_streak_habit = FirstTop(best)
              /\ last.out.most_consistent_habit = FirstTop(total)
              /\ (last.out.best_streak_habit = {}) <=> (habits = {})
              /\ (last.out.most_consistent_habit = {}) <=> (habits = {})

\* C20's case: the habit with the greater id is listed first, both habits
\* have the same best streak and the same number of completions, and the
\* one listed first is named twice.
C20_Witness ==
    /\ last.op = "get_analytics_summary"
    /\ last.raised = "none"
    /\ Len(last.out.habit_streaks) = 2
    /\ last.out.habit_streaks[1].id = 2
    /\ last.out.habit_streaks[1].best_streak = 2
    /\ last.out.habit_streaks[2].best_streak = 2
    /\ last.out.habit_streaks[1].total_completions = 2
    /\ last.out.habit_streaks[2].total_completions = 2
    /\ last.out.best_streak_habit = {"Run"}
    /\ last.out.most_consistent_habit = {"Run"}

----------------------------------------------------------------------------
(* Properties of the reports *)

\* C17: get_statistics, get_weekly_data, get_daily_report,
\* get_monthly_trends and get_analytics_summary return normally, and a rate
\* over no habit or over no task is 0; with no habit and no task of the
\* day the overall score of the daily report is 0.
C17_ReportsReturnZeroRates ==
    /\ last.op \in {"get_statistics", "get_weekly_data", "get_daily_report",
                    "get_monthly_trends", "get_analytics_summary"}
       => last.raised = "none"
    /\ (last.op = "get_statistics" /\ habits = {})
       => /\ last.out.completion_rate = 0
          /\ \A i \in 1..WeekLength : last.out.weekly_data[i].percentage = 0
    /\ (last.op = "get_weekly_data" /\ habits = {})
       => \A i \in 1..WeekLength : last.out[i].percentage = 0
    /\ last.op = "get_daily_report"
       => /\ last.out.habits_total = 0 => last.out.habit_rate = 0
          /\ last.out.tasks_total = 0 => last.out.task_rate = 0
          /\ (last.out.habits_total = 0 /\ last.out.tasks_total = 0)
             => last.out.overall_score = 0
    /\ last.op = "get_monthly_trends"
       => /\ \A i \in 1..Len(last.out.daily_data) :
                LET e == last.out.daily_data[i]
                IN  /\ e.habits_total = 0 => e.habit_rate = 0
                    /\ e.tasks_total = 0 => e.task_rate = 0
          /\ habits = {} => last.out.avg_habit_rate = 0
          /\ (\A i \in 1..Len(last.out.daily_data) :
                 last.out.daily_data[i].tasks_total = 0)
             => last.out.avg_task_rate = 0
    /\ (last.op = "get_analytics_summary" /\ habits = {})
       => last.out.today_completion_rate = 0

----------------------------------------------------------------------------
(* Transactions: delete_habit and update_habits_order statement by statement *)

\* sqlite3.connect is called with the module's default isolation_level, so
\* the first DELETE or UPDATE on a connection opens a transaction that
\* lasts until conn.commit(): the statements change the connection's view
\* only.
Autocommit_On == TRUE

Autocommit == FALSE

AtomicHabitIds == {1, 2}

AtomicDate == isoformat(2024, 6, 1)

\* The statements a write in progress has still to execute.
StatementsLeft(t) ==
    IF t.op = "delete_habit" THEN 2 - t.pc ELSE Len(t.ids) - t.pc

\* conn = get_connection() at the start of delete_habit(hid): start is the
\* store as the call found it.
delete_habit_begin(hid) ==
    /\ txn.state = "none"
    /\ conns < MaxConns
    /\ conns' = conns + 1
    /\ txn' = [state |-> "open", op |-> "delete_habit", hid |-> hid, ids |-> <<>>,
               pc |-> 0, habits |-> habits, completions |-> completions,
               start |-> <<habits, completions>>]
    /\ UNCHANGED <<habits, habitSeq, completions, tasks, taskSeq, settings, now,
                   today, last, givenIds>>

\* conn = get_connection() at the start of update_habits_order(ids).
update_habits_order_begin(ids) ==
    /\ txn.state = "none"
    /\ conns < MaxConns
    /\ conns' = conns + 1
    /\ txn' = [state |-> "open", op |-> "update_habits_order", hid |-> 0,
               ids |-> ids, pc |-> 0, habits |-> habits,
               completions |-> completions, start |-> <<habits, completions>>]
    /\ UNCHANGED <<habits, habitSeq, completions, tasks, taskSeq, settings, now,
                   today, last, givenIds>>

\* The tables after the next statement of the write in progress:
\* delete_habit's DELETE FROM habit_completions, then its DELETE FROM
\* habits; update_habits_order's UPDATE for the next list entry.
AfterStatement(t) ==
    IF t.op = "delete_habit"
        THEN IF t.pc = 0
                 THEN <<t.habits, DeleteCompletionsOf(t.completions, t.hid)>>
                 ELSE <<{h \in t.habits : h.id # t.hid}, t.completions>>
        ELSE <<{IF h.id = t.ids[t.pc + 1] THEN [h EXCEPT !.sort_order = t.pc]
                ELSE h : h \in t.habits},
               t.completions>>

\* cursor.execute(...): one statement runs on the connection.  In
\* autocommit mode it would be written to the database at once.
execute_statement ==
    /\ txn.state = "open"
    /\ StatementsLeft(txn) > 0
    /\ txn' = [txn EXCEPT !.pc = @ + 1,
                          !.habits = AfterStatement(txn)[1],
                          !.completions = AfterStatement(txn)[2]]
    /\ habits' = IF Autocommit THEN AfterStatement(txn)[1] ELSE habits
    /\ completions' = IF Autocommit THEN AfterStatement(txn)[2] ELSE completions
    /\ UNCHANGED <<habitSeq, tasks, taskSeq, settings, now, today, last,
                   givenIds, conns>>

\* conn.commit(); conn.close(): the connection's view becomes the store.
commit ==
    /\ txn.state = "open"
    /\ StatementsLeft(txn) = 0
    /\ habits' = txn.habits
    /\ completions' = txn.completions
    /\ txn' = NoTxn
    /\ last' = [Call(txn.op, txn.hid, <<>>, txn.ids,
                     IF txn.op = "delete_habit"
                         THEN \E h \in txn.start[1] : h.id = txn.hid
                         ELSE TRUE,
                     <<>>)
                  EXCEPT !.before = txn.start]
    /\ conns' = conns - 1
    /\ UNCHANGED <<habitSeq, tasks, taskSeq, settings, now, today, givenIds>>

\* A statement or the commit raises (a list entry sqlite3 cannot bind, an
\* I/O error): the function is left by the exception, with neither commit
\* nor close; the connection stays open with its transaction.
fail ==
    /\ txn.state = "open"
    /\ txn' = [txn EXCEPT !.state = "failed"]
    /\ last' = [Call(txn.op, txn.hid, <<>>, txn.ids, FALSE, <<>>)
                  EXCEPT !.raised = "sqlite3.Error", !.before = txn.start]
    /\ UNCHANGED <<habits, habitSeq, completions, tasks, taskSeq, settings, now,
                   today, givenIds, conns>>

\* The connection objects that calls left open are reclaimed and closed:
\* closing the connection of a failed write rolls its transaction back.
collect ==
    /\ txn.state # "open"
    /\ conns > 0
    /\ txn' = NoTxn
    /\ conns' = 0
    /\ UNCHANGED <<habits, habitSeq, completions, tasks, taskSeq, settings, now,
                   today, last, givenIds>>

\* A write by a later call while the failed call's connection holds its
\* lock: sqlite3.OperationalError (database is locked), nothing is written.
locked_write(hid) ==
    /\ txn.state = "failed"
    /\ last' = [Call("toggle_habit_completion", hid, AtomicDate, <<>>, FALSE, <<>>)
                  EXCEPT !.raised = "sqlite3.OperationalError"]
    /\ Leave(last', 1)
    /\ UNCHANGED <<habits, habitSeq, completions, tasks, taskSeq, settings, now,
                   today, txn, givenIds>>

\* A store with two habits; the calls are served one at a time, so nothing
\* else runs while a write is between its first statement and its end.
InitAtomic ==
    /\ habits = {[id |-> i, name |-> "Read", sort_order |-> i] : i \in AtomicHabitIds}
    /\ habitSeq = 2
    /\ completions = EmptyBag
    /\ tasks = {}
    /\ taskSeq = 0
    /\ settings = {}
    /\ now = 0
    /\ today = toordinal(2024, 6, 1)
    /\ txn = NoTxn
    /\ givenIds = 1..habitSeq
    /\ conns = 0
    /\ last = NoCall

NextAtomic ==
    \/ \E hid \in AtomicHabitIds : delete_habit_begin(hid)
    \/ \E ids \in IdLists(AtomicHabitIds) : update_habits_order_begin(ids)
    \/ execute_statement
    \/ commit
    \/ fail
    \/ collect
    \/ \E hid \in AtomicHabitIds : locked_write(hid)
    \/ \E hid \in AtomicHabitIds :
          txn.state = "none" /\ toggle_habit_completion(hid, AtomicDate)
    \/ txn.state # "open" /\ list_habits
    \/ txn.state # "open" /\ month_completions(2024, 6)

SpecAtomic == InitAtomic /\ [][NextAtomic]_vars

\* C18: from the failure of delete_habit or update_habits_order on, also
\* after the failed call's connection is closed, the tables are the ones
\* the call found, and the reads made meanwhile return what they would
\* have returned before the call.
C18_FailedWriteLeavesNoTrace ==
    [][/\ txn'.state = "failed"
          => /\ <<habits', completions'>> = txn'.start
             /\ last'.op = "get_all_habits"
                => last'.rows = get_all_habits(txn'.start[1])
             /\ last'.op = "get_habit_completions"
                => last'.out = get_habit_completions(txn'.start[2], 2024, 6).out
       /\ (txn.state = "failed" /\ txn'.state = "none")
          => <<habits', completions'>> = txn.start]_vars

\* C18's case: delete_habit failed after its first DELETE had removed a
\* completion row from the connection's view, and a later call lists the
\* habits.
C18_Witness ==
    /\ txn.state = "failed"
    /\ txn.op = "delete_habit"
    /\ txn.pc = 1
    /\ txn.completions # completions
    /\ last.op = "get_all_habits"

----------------------------------------------------------------------------
(* The reads next to writes and to the passing of days *)

\* The dates and months the reads are asked about: the start days and their
\* months.
ReadDates == {DateStr(d) : d \in StartDays}

ReadMonths == {fromordinal(d).m : d \in StartDays}

\* The stores looked at on a Saturday: two habits, the first completed on any of
\* yesterday and today, the second on any of today and BadDate; two tasks
\* dated today with the same priority, created in the same second.
InitReads ==
    /\ today = toordinal(2024, 1, 6)
    /\ habits = {[id |-> 1, name |-> "Read", sort_order |-> 1],
                 [id |-> 2, name |-> "Run", sort_order |-> 2]}
    /\ habitSeq = 2
    /\ \E D1 \in SUBSET {DateStr(today - 1), DateStr(today)},
          D2 \in SUBSET {DateStr(today), BadDate} :
          completions = SetToBag({Pair(1, d) : d \in D1} \cup {Pair(2, d) : d \in D2})
    /\ tasks = {[id |-> 1, title |-> "Write", date |-> DateStr(today),
                 completed |-> 1, priority |-> "medium", created_at |-> 0],
                [id |-> 2, title |-> "Write", date |-> DateStr(today),
                 completed |-> 0, priority |-> "medium", created_at |-> 0]}
    /\ taskSeq = 2
    /\ settings = {}
    /\ now = 0
    /\ txn = NoTxn
    /\ givenIds = 1..habitSeq
    /\ conns = 0
    /\ last = NoCall

NextReads ==
    \/ list_habits
    \/ \E m \in ReadMonths : month_completions(2024, m)
    \/ \E d \in ReadDates : tasks_for_date(d)
    \/ get_setting("theme", "system")
    \/ statistics
    \/ \E d \in ReadDates : weekly_data(d)
    \/ \E d \in ReadDates : daily_report(d)
    \/ \E m \in ReadMonths : monthly_trends(2024, m)
    \/ habit_streaks
    \/ analytics_summary
    \/ toggle_habit_completion(1, DateStr(today))
    \/ toggle_task(1)
    \/ \E value \in {"dark", "light"} : set_setting("theme", value)
    \/ NextDay

SpecReads == InitReads /\ [][NextReads]_vars

\* The names the reads have in the call log.
ReadOps ==
    {"get_all_habits", "get_habit_completions", "get_tasks_for_date",
     "get_setting", "get_statistics", "get_weekly_data", "get_daily_report",
     "get_monthly_trends", "get_habit_streaks", "get_analytics_summary"}

\* The reads that ask for date.today().
ClockReads == {"get_statistics", "get_habit_streaks", "get_analytics_summary"}

\* What a call gave back: its value or lists, or the exception it raised.
ResultOf(c) == <<c.ret, c.rows, c.out, c.raised>>

\* Two calls of one operation with the same arguments.
SameCall(c, e) == c.op = e.op /\ c.hid = e.hid /\ c.date = e.date /\ c.ids = e.ids

\* C19 as stated: each of the ten reads leaves habits, completions, tasks
\* and settings as they were, and a read called again with the same
\* arguments right after itself (so with no write in between) returns what
\* it returned before.
C19_ReadsRepeatWithoutWrite ==
    [][(last'.op \in ReadOps /\ today' = today)
          => /\ Store' = Store
             /\ SameCall(last, last') => ResultOf(last') = ResultOf(last)]_vars

\* C19, amended: each of the ten reads leaves habits, completions, tasks
\* and settings as they were; a read called again with the same arguments
\* right after itself returns what it returned before, provided, for
\* get_statistics, get_habit_streaks and get_analytics_summary, that both
\* calls are made on the same calendar day.
C19_ReadsRepeatWithinDay ==
    [][(last'.op \in ReadOps /\ today' = today)
          => /\ Store' = Store
             /\ (/\ SameCall(last, last')
                 /\ last'.op \in ClockReads => last.on = last'.on)
                => ResultOf(last') = ResultOf(last)]_vars

\* C19's case: get_analytics_summary was called twice in a row on one day,
\* the day after the first day, over a store with completions and a setting.
C19_Witness ==
    /\ last.op = "get_analytics_summary"
    /\ last.again
    /\ last.on = today
    /\ today \notin StartDays
    /\ completions # EmptyBag
    /\ settings # {}

----------------------------------------------------------------------------
(* The week of the analytics summary *)

\* The Monday on or before the day with ordinal day:
\*   today - timedelta(days=today.weekday())
week_start(day) == day - weekday(day)

\* The dates records are given around the week of the start days: the
\* Sunday before the week, its Monday, its Sunday and the Monday after it.
WeekDays(day) ==
    {week_start(day) - 1, week_start(day), week_start(day) + WeekLength - 1,
     week_start(day) + WeekLength}

WeekTaskIds == 1..4

\* The i-th of these dates, in calendar order.
WeekDay(day, i) ==
    CHOOSE d \in WeekDays(day) : Cardinality({e \in WeekDays(day) : e < d}) = i - 1

\* The stores looked at: two habits, no completion, and one open task on
\* each of the dates around the week, the earliest date first.
InitWeek ==
    /\ today \in StartDays
    /\ habits = {[id |-> 1, name |-> "Read", sort_order |-> 1],
                 [id |-> 2, name |-> "Run", sort_order |-> 2]}
    /\ habitSeq = 2
    /\ completions = EmptyBag
    /\ tasks = {[id |-> i, title |-> "Write", date |-> DateStr(WeekDay(today, i)),
                 completed |-> 0, priority |-> "medium", created_at |-> 0] :
                   i \in WeekTaskIds}
    /\ taskSeq = 4
    /\ settings = {}
    /\ now = 0
    /\ txn = NoTxn
    /\ givenIds = 1..habitSeq
    /\ conns = 0
    /\ last = NoCall

NextWeek ==
    \/ \E d \in WeekDays(today) : toggle_habit_completion(1, DateStr(d))
    \/ \E tid \in WeekTaskIds : toggle_task(tid)
    \/ analytics_summary
    \/ NextDay

SpecWeek == InitWeek /\ [][NextWeek]_vars

\* The dates of the week of the day with ordinal day, Monday to Sunday.
DatesOfWeek(day) == {DateStr(week_start(day) + i) : i \in 0..(WeekLength - 1)}

\* C21: week_habit_completions of get_analytics_summary is the number of
\* completion rows, and week_tasks_completed the number of completed tasks,
\* dated in the seven days that start at the Monday on or before the day of
\* the call; rows dated before that Monday or after that week's Sunday are
\* not counted.
C21_WeekCountsThisWeekOnly ==
    (last.op = "get_analytics_summary" /\ last.raised = "none")
    => /\ last.out.week_habit_completions =
             SumCopies({p \in BagToSet(completions) : p.date \in DatesOfWeek(last.on)},
                       completions)
       /\ last.out.week_tasks_completed =
             Cardinality({t \in tasks : /\ t.date \in DatesOfWeek(last.on)
                                        /\ t.completed = 1})

----------------------------------------------------------------------------
(* Habit ids *)

\* C22: the habits in the table have different ids, and each create_habit
\* returns an id greater than every id an earlier create_habit returned
\* (givenIds), whatever was deleted in between; so the id of a deleted
\* habit is never given again.
C22_IdsOnlyGrow ==
    [][/\ Cardinality(HabitIdsOf(habits')) = Cardinality(habits')
       /\ (last'.op = "create_habit" /\ habits' # habits)
          => /\ \A i \in givenIds : last'.hid > i
             /\ last'.hid \in HabitIdsOf(habits')
             /\ givenIds' = givenIds \cup {last'.hid}]_vars

\* C22's case: the habit with the largest id was deleted, and the
\* create_habit after it returned a new id.
C22_Witness ==
    /\ last.op = "create_habit"
    /\ last.hid = 2
    /\ HabitIdsOf(habits) = {2}
    /\ givenIds = {1, 2}

----------------------------------------------------------------------------
(* Connections *)

\* A start date in another form than strptime's "%Y-%m-%d"; the weekly
\* route passes the text of the query string on as it is.
MalformedDate == <<"2", "0", "2", "4", "/", "0", "6", "/", "0", "1">>

ConnectionHabitIds == {1, 2}

\* A store with two habits and no completion.
InitConnections ==
    /\ habits = {[id |-> 1, name |-> "Read", sort_order |-> 1],
                 [id |-> 2, name |-> "Run", sort_order |-> 2]}
    /\ habitSeq = 2
    /\ completions = EmptyBag
    /\ tasks = {}
    /\ taskSeq = 0
    /\ settings = {}
    /\ now = 0
    /\ today = toordinal(2024, 3, 1)
    /\ txn = NoTxn
    /\ givenIds = 1..habitSeq
    /\ conns = 0
    /\ last = NoCall

\* The calls are served one at a time: none starts while a write is in
\* progress.
NextConnections ==
    \/ \E hid \in ConnectionHabitIds : delete_habit_begin(hid)
    \/ execute_statement
    \/ commit
    \/ fail
    \/ collect
    \/ \E hid \in ConnectionHabitIds : locked_write(hid)
    \/ \E hid \in ConnectionHabitIds, d \in {DateStr(today), BadDate} :
          txn.state = "none" /\ toggle_habit_completion(hid, d)
    \/ txn.state # "open" /\ list_habits
    \/ \E d \in {DateStr(today), MalformedDate} : txn.state # "open" /\ weekly_data(d)
    \/ txn.state # "open" /\ habit_streaks
    \/ txn.state # "open" /\ analytics_summary

SpecConnections == InitConnections /\ [][NextConnections]_vars

\* C23: whenever no operation is in progress no connection is open: every
\* call has closed the connections it opened when it returns or raises.
C23_NoConnectionLeftOpen == txn.state # "open" => conns = 0

----------------------------------------------------------------------------
(* The daily report next to the habit writes *)

NextDaily ==
    \/ \E name \in HabitNames : create_habit(name)
    \/ \E hid \in HabitIds : delete_habit(hid)
    \/ \E ids \in IdLists(HabitIds) : update_habits_order(ids)
    \/ \E hid \in HabitIds, d \in DateStrs : toggle_habit_completion(hid, d)
    \/ \E d \in DateStrs : daily_report(d)

SpecDaily == Init /\ [][NextDaily]_vars

\* The habit with the id.
HabitOf(hid) == CHOOSE h \in habits : h.id = hid

\* C24: the habits of get_daily_report(date) hold every habit of the table
\* exactly once, in (sort_order, id) order, flagged completed exactly when
\* a completion row (habit, date) exists; habits_total is the number of
\* habits and habits_completed the number of flagged ones, so
\* habits_completed <= habits_total.
C24_DailyReportListsEveryHabitOnce ==
    last.op = "get_daily_report"
    => LET r == last.out
           d == last.ids[1]
           n == Len(r.habits)
       IN  /\ {r.habits[i].id : i \in 1..n} = HabitIdsOf(habits)
           /\ \A i, j \in 1..n : r.habits[i].id = r.habits[j].id => i = j
           /\ \A i, j \in 1..n :
                 i < j => HabitBefore(HabitOf(r.habits[i].id), HabitOf(r.habits[j].id))
           /\ \A i \in 1..n :
                 r.habits[i].completed = 1
                     <=> Pair(r.habits[i].id, d) \in PairsOf(completions)
           /\ \A i \in 1..n : r.habits[i].completed \in {0, 1}
           /\ r.habits_total = Cardinality(habits)
           /\ r.habits_completed =
                 Cardinality({i \in 1..n : r.habits[i].completed = 1})
           /\ r.habits_completed <= r.habits_total

\* C24's case: a report over two habits listed against their ids, the one
\* completed on the date and the other not, with a completion of another
\* date in the table.
C24_Witness ==
    /\ last.op = "get_daily_report"
    /\ Len(last.out.habits) = 2
    /\ last.out.habits[1].id = 2
    /\ last.out.habits[1].completed = 0
    /\ last.out.habits[2].completed = 1
    /\ last.out.habits_completed = 1
    /\ \E p \in PairsOf(completions) : p.date # last.ids[1]

----------------------------------------------------------------------------
(* The rates next to the habit writes *)

NextRates ==
    \/ \E name \in HabitNames : create_habit(name)
    \/ \E hid \in HabitIds : delete_habit(hid)
    \/ \E hid \in HabitIds, d \in DateStrs : toggle_habit_completion(hid, d)
    \/ statistics
    \/ \E d \in DateStrs : weekly_data(d)
    \/ monthly_trends(fromordinal(today).y, fromordinal(today).m)
    \/ analytics_summary

SpecRates == Init /\ [][NextRates]_vars

\* A rate in tenths of a percent that lies between 0 and 100.
IsPercentage(rate) == rate \in 0..1000

\* C25: on every date the completion rows are at most as many as the
\* habits; so every completion percentage of get_statistics,
\* get_weekly_data, get_monthly_trends and get_analytics_summary lies
\* between 0 and 100, and a day's completed count is 0 when there is no
\* habit.
C25_RatesWithinHundred ==
    /\ \A d \in DateStrs : CountOn(completions, d) <= Cardinality(habits)
    /\ (last.op = "get_statistics")
       => /\ IsPercentage(last.out.completion_rate)
          /\ \A i \in 1..Len(last.out.weekly_data) :
                /\ IsPercentage(last.out.weekly_data[i].percentage)
                /\ habits = {} => last.out.weekly_data[i].completed = 0
    /\ (last.op = "get_weekly_data" /\ last.raised = "none")
       => \A i \in 1..Len(last.out) :
             /\ IsPercentage(last.out[i].percentage)
             /\ habits = {} => last.out[i].completed = 0
    /\ (last.op = "get_monthly_trends" /\ last.raised = "none")
       => \A i \in 1..Len(last.out.daily_data) :
             /\ IsPercentage(last.out.daily_data[i].habit_rate)
             /\ habits = {} => last.out.daily_data[i].habits_done = 0
    /\ (last.op = "get_analytics_summary" /\ last.raised = "none")
       => IsPercentage(last.out.today_completion_rate)

----------------------------------------------------------------------------
(* The streaks next to the habit writes *)

\* The dates a caller passes to the toggle: three days up to the day of
\* Init, and the second of them written without the zero of its month; the
\* toggle route stores the text it is given.
StreakDates ==
    {isoformat(2024, 5, 30), isoformat(2024, 5, 31), isoformat(2024, 6, 1),
     <<"2", "0", "2", "4", "-", "5", "-", "3", "1">>}

NextHabitStreaks ==
    \/ \E name \in HabitNames : create_habit(name)
    \/ \E hid \in HabitIds : delete_habit(hid)
    \/ \E d \in StreakDates : toggle_habit_completion(1, d)
    \/ toggle_habit_completion(2, isoformat(2024, 6, 1))
    \/ habit_streaks
    \/ analytics_summary

SpecHabitStreaks == Init /\ [][NextHabitStreaks]_vars

\* C26: every entry of get_habit_streaks has current_streak <= best_streak
\* <= total_completions, and total_habit_completions of
\* get_analytics_summary is the sum of total_completions over the entries
\* of its habit_streaks.
C26_StreaksOrderedAndSummed ==
    /\ (last.op = "get_habit_streaks" /\ last.raised = "none")
       => \A i \in 1..Len(last.out) :
             /\ last.out[i].current_streak <= last.out[i].best_streak
             /\ last.out[i].best_streak <= last.out[i].total_completions
    /\ (last.op = "get_analytics_summary" /\ last.raised = "none")
       => LET entries == last.out.habit_streaks
          IN  /\ \A i \in 1..Len(entries) :
                    /\ entries[i].current_streak <= entries[i].best_streak
                    /\ entries[i].best_streak <= entries[i].total_completions
              /\ last.out.total_habit_completions =
                    SumSeq([i \in 1..Len(entries) |-> entries[i].total_completions])

====
